---- MODULE Spec2Model ----
(***************************************************************************)
(* User profile service: the cache-aside coordination of ProfileService    *)
(* between the PostgreSQL repository (table user_profiles) and the Redis   *)
(* cache, and the gRPC handler's mapping of service errors to status codes.*)
(*                                                                         *)
(* Every network call to the store or the cache is one atomic step; the    *)
(* calls of concurrent requests interleave freely.  Each call can fail.    *)
(* The store is taken as a working PostgreSQL holding the table of the     *)
(* migration; values are the Go-side strings the repository binds and      *)
(* scans (a column never written reads back as the empty string).          *)
(***************************************************************************)
EXTENDS Integers, Sequences, FiniteSets, TLC

VARIABLES store, cache, call, now, nextID, calls, ghost, srv, expires

vars == <<store, cache, call, now, nextID, calls, ghost, srv, expires>>

(***************************************************************************)
(* Bounds of the model.                                                    *)
(***************************************************************************)
NumProcs == 2
MaxCalls == 3

Procs == 1..NumProcs

UserIDs == {"u1", "u2", "u3"}

(***************************************************************************)
(* Optional values: a nil pointer / absent value is the empty sequence.    *)
(***************************************************************************)
Nil == <<>>

Some(x) == <<x>>

(***************************************************************************)
(* Errors.  A Go error is either one of the service's sentinel values or a *)
(* fresh error built by fmt.Errorf that wraps another one (%w).  msg is    *)
(* the error's own message, wraps names the wrapped error, detail carries  *)
(* the formatted validation errors.                                        *)
(***************************************************************************)
NoErr == [msg |-> "", wraps |-> "", detail |-> {}]

ErrProfileNotFound == [msg |-> "profile not found", wraps |-> "", detail |-> {}]

ErrProfileAlreadyExists == [msg |-> "profile already exists", wraps |-> "", detail |-> {}]

ErrInvalidData == [msg |-> "invalid data", wraps |-> "", detail |-> {}]

Errorf(msg, wrapped) == [msg |-> msg, wraps |-> wrapped, detail |-> {}]

\* errors.Is(err, target): err is the target or wraps it.
ErrorsIs(err, target) == err = target \/ err.wraps = target.msg

(***************************************************************************)
(* Requests (internal/models/profile.go).                                  *)
(***************************************************************************)
CreateProfileRequest(u, fn, ln, ph, dob) ==
    [UserID |-> u, FirstName |-> fn, LastName |-> ln, Phone |-> ph, DateOfBirth |-> dob]

UpdateProfileRequest(u, fn, ln, ph, dob, av) ==
    [UserID |-> u, FirstName |-> fn, LastName |-> ln, Phone |-> ph, DateOfBirth |-> dob,
     AvatarURL |-> av, Address |-> "", City |-> "", Country |-> "", PostalCode |-> "",
     DrivingLicense |-> ""]

\* The requests the clients send: two creations for u1 that differ in every
\* field, one for u2 whose phone is no phone number, one with the required first
\* name missing; an update of the phone alone, one of first name and avatar whose
\* date is no calendar date, one with the user id missing.
CreateReqs ==
    { CreateProfileRequest("u1", "Ann", "Lee", "", ""),
      CreateProfileRequest("u2", "Ann", "Lee", "abc", ""),
      CreateProfileRequest("u1", "Bob", "Ray", "+12025550123", "1990-05-17"),
      CreateProfileRequest("u1", "", "Lee", "", "") }

UpdateReqs ==
    { UpdateProfileRequest("u1", "", "", "+4479460958", "", ""),
      UpdateProfileRequest("u1", "Cy", "", "", "2024-13-40", "http://a/1.png"),
      UpdateProfileRequest("", "Cy", "", "", "", "") }

GetReqs == {"u1", "u2"}

DeleteReqs == {"u1"}

\* Batches: three users of whom the middle one never has a record, and one user
\* twice.
BatchReqs == { <<"u1", "u3", "u2">>, <<"u1", "u1">> }

(***************************************************************************)
(* Field validator (pkg/validation/validator.go) over the struct tags of   *)
(* the two request shapes: the set of <<field, tag>> violations.           *)
(***************************************************************************)
\* tag `required`: a non-empty string.
Required(field, v) == IF v = "" THEN {<<field, "required">>} ELSE {}

\* CreateProfileRequest tags UserID, FirstName and LastName `required`;
\* UpdateProfileRequest tags UserID `required`; no other field carries a tag.
ValidateStruct(op, req) ==
    IF op = "Create"
    THEN Required("UserID", req.UserID) \cup Required("FirstName", req.FirstName)
         \cup Required("LastName", req.LastName)
    ELSE Required("UserID", req.UserID)

Message(field, tag) ==
    CASE tag = "required" -> <<field, "is required">>
      [] tag = "email" -> <<field, "must be a valid email">>
      [] tag = "date" -> <<field, "must be a valid date in YYYY-MM-DD format">>
      [] tag = "phone" -> <<field, "must be a valid phone number">>
      [] OTHER -> <<field, "failed", tag, "validation">>

FormatValidationErrors(violations) ==
    { <<v[1], Message(v[1], v[2])>> : v \in violations }

\* The characters of the strings that requests carry in Phone and DateOfBirth
\* and of the values the environment gives CACHE_TTL.
Runes(s) ==
    CASE s = "" -> <<>>
      [] s = "1h" -> <<"1", "h">>
      [] s = "30m" -> <<"3", "0", "m">>
      [] s = "1h30m" -> <<"1", "h", "3", "0", "m">>
      [] s = "90" -> <<"9", "0">>
      [] s = "abc" -> <<"a", "b", "c">>
      [] s = "+12025550123" -> <<"+", "1", "2", "0", "2", "5", "5", "5", "0", "1", "2", "3">>
      [] s = "+4479460958" -> <<"+", "4", "4", "7", "9", "4", "6", "0", "9", "5", "8">>
      [] s = "1990-05-17" -> <<"1", "9", "9", "0", "-", "0", "5", "-", "1", "7">>
      [] s = "2024-13-40" -> <<"2", "0", "2", "4", "-", "1", "3", "-", "4", "0">>
      [] s = "2023-02-29" -> <<"2", "0", "2", "3", "-", "0", "2", "-", "2", "9">>

DigitValue ==
    [c \in {"0", "1", "2", "3", "4", "5", "6", "7", "8", "9"} |->
       CASE c = "0" -> 0 [] c = "1" -> 1 [] c = "2" -> 2 [] c = "3" -> 3 [] c = "4" -> 4
         [] c = "5" -> 5 [] c = "6" -> 6 [] c = "7" -> 7 [] c = "8" -> 8 [] c = "9" -> 9]

IsDigit(c) == c \in DOMAIN DigitValue

\* The number written by the digits s[i..j].
RECURSIVE Atoi(_, _, _)
Atoi(s, i, j) == IF j < i THEN 0 ELSE 10 * Atoi(s, i, j - 1) + DigitValue[s[j]]

DaysIn(year, month) ==
    CASE month \in {4, 6, 9, 11} -> 30
      [] month = 2 ->
           IF year % 4 = 0 /\ (year % 100 # 0 \/ year % 400 = 0) THEN 29 ELSE 28
      [] OTHER -> 31

\* time.Parse("2006-01-02", dateStr) succeeds: four digits, "-", a month 01..12,
\* "-", a day of that month.
ParsesAsDate(s) ==
    /\ Len(s) = 10
    /\ s[5] = "-" /\ s[8] = "-"
    /\ \A i \in {1, 2, 3, 4, 6, 7, 9, 10} : IsDigit(s[i])
    /\ Atoi(s, 6, 7) \in 1..12
    /\ Atoi(s, 9, 10) \in 1..DaysIn(Atoi(s, 1, 4), Atoi(s, 6, 7))

\* rule `date`, registered by NewValidator
validateDate(dateStr) == dateStr = "" \/ ParsesAsDate(Runes(dateStr))

\* ^\+?[1-9]\d{1,14}$
MatchesPhoneRegex(s) ==
    LET t == IF Len(s) > 0 /\ s[1] = "+" THEN Tail(s) ELSE s
    IN /\ Len(t) \in 2..15
       /\ IsDigit(t[1]) /\ t[1] # "0"
       /\ \A i \in 2..Len(t) : IsDigit(t[i])

\* rule `phone`, registered by NewValidator
validatePhone(phone) == phone = "" \/ MatchesPhoneRegex(Runes(phone))

(***************************************************************************)
(* PostgreSQL repository (internal/repository/postgres).                   *)
(* st is the set of rows of user_profiles.                                 *)
(***************************************************************************)
\* A bound parameter is a present SQL value; SQL NULL is the absent one.
NULL == <<>>

\* pgx binds a Go string, the empty one included, as a text value.
SqlText(s) == <<s>>

Coalesce(a, b) == IF a = NULL THEN b ELSE a[1]

\* rows.Scan into models.UserProfile
ScanProfile(r) ==
    [ID |-> r.id, UserID |-> r.user_id, FirstName |-> r.first_name,
     LastName |-> r.last_name, Phone |-> r.phone, DateOfBirth |-> r.date_of_birth,
     AvatarURL |-> r.avatar_url, Address |-> r.address, City |-> r.city,
     Country |-> r.country, PostalCode |-> r.postal_code,
     DrivingLicense |-> r.driving_license,
     CreatedAt |-> r.created_at, UpdatedAt |-> r.updated_at]

RowsOf(st, userID) == { r \in st : r.user_id = userID }

\* Variant: pgx.ErrNoRows is not told apart and the zero-valued struct is returned.
GetProfileByUserID_ZeroOnNoRows(st, userID) ==
    IF RowsOf(st, userID) = {}
    THEN Some([ID |-> 0, UserID |-> "", FirstName |-> "", LastName |-> "", Phone |-> "",
               DateOfBirth |-> "", AvatarURL |-> "", Address |-> "", City |-> "",
               Country |-> "", PostalCode |-> "", DrivingLicense |-> "",
               CreatedAt |-> 0, UpdatedAt |-> 0])
    ELSE Some(ScanProfile(CHOOSE r \in RowsOf(st, userID) : TRUE))

\* SELECT ... WHERE user_id = $1; pgx.ErrNoRows is (nil, nil).
GetProfileByUserID(st, userID) ==
    IF RowsOf(st, userID) = {} THEN Nil
    ELSE Some(ScanProfile(CHOOSE r \in RowsOf(st, userID) : TRUE))

\* SELECT ... WHERE id = $1
GetProfileByID(st, id) ==
    IF {r \in st : r.id = id} = {} THEN Nil
    ELSE Some(ScanProfile(CHOOSE r \in st : r.id = id))

\* Variant: the table lacks the UNIQUE constraint on user_id.
CreateProfile_NoUnique(st, req, id, t) ==
    LET row == [id |-> id, user_id |-> req.UserID, first_name |-> req.FirstName,
                last_name |-> req.LastName, phone |-> req.Phone,
                date_of_birth |-> req.DateOfBirth, avatar_url |-> "",
                address |-> "", city |-> "", country |-> "", postal_code |-> "",
                driving_license |-> "", created_at |-> t, updated_at |-> t]
    IN [err |-> "", store |-> st \cup {row}, profile |-> Some(ScanProfile(row))]

\* INSERT ... RETURNING id, created_at, updated_at.  user_id is UNIQUE.
CreateProfile(st, req, id, t) ==
    IF RowsOf(st, req.UserID) # {}
    THEN [err |-> "unique_violation", store |-> st, profile |-> Nil]
    ELSE LET row == [id |-> id, user_id |-> req.UserID, first_name |-> req.FirstName,
                     last_name |-> req.LastName, phone |-> req.Phone,
                     date_of_birth |-> req.DateOfBirth, avatar_url |-> "",
                     address |-> "", city |-> "", country |-> "", postal_code |-> "",
                     driving_license |-> "", created_at |-> t, updated_at |-> t]
         IN [err |-> "", store |-> st \cup {row},
             profile |-> Some([ID |-> id, UserID |-> req.UserID,
                               FirstName |-> req.FirstName, LastName |-> req.LastName,
                               Phone |-> req.Phone, DateOfBirth |-> req.DateOfBirth,
                               AvatarURL |-> "", Address |-> "", City |-> "",
                               Country |-> "", PostalCode |-> "", DrivingLicense |-> "",
                               CreatedAt |-> t, UpdatedAt |-> t])]

\* Variant: an update that finds no row inserts one.
UpdateProfile_Upsert(st, userID, updates, t) ==
    LET row == [id |-> 0, user_id |-> userID, first_name |-> updates.FirstName,
                last_name |-> updates.LastName, phone |-> updates.Phone,
                date_of_birth |-> updates.DateOfBirth, avatar_url |-> updates.AvatarURL,
                address |-> updates.Address, city |-> updates.City,
                country |-> updates.Country, postal_code |-> updates.PostalCode,
                driving_license |-> updates.DrivingLicense,
                created_at |-> t, updated_at |-> t]
    IN [err |-> "", store |-> (st \ RowsOf(st, userID)) \cup {row},
        profile |-> Some(ScanProfile(row))]

\* UPDATE ... SET col = COALESCE($n, col), updated_at = NOW() WHERE user_id = $11
\* RETURNING ...; no row is (nil, nil).
UpdateProfile(st, userID, updates, t) ==
    IF RowsOf(st, userID) = {}
    THEN [err |-> "", store |-> st, profile |-> Nil]
    ELSE LET old == CHOOSE r \in RowsOf(st, userID) : TRUE
             new == [old EXCEPT
                       !.first_name = Coalesce(SqlText(updates.FirstName), @),
                       !.last_name = Coalesce(SqlText(updates.LastName), @),
                       !.phone = Coalesce(SqlText(updates.Phone), @),
                       !.date_of_birth = Coalesce(SqlText(updates.DateOfBirth), @),
                       !.avatar_url = Coalesce(SqlText(updates.AvatarURL), @),
                       !.address = Coalesce(SqlText(updates.Address), @),
                       !.city = Coalesce(SqlText(updates.City), @),
                       !.country = Coalesce(SqlText(updates.Country), @),
                       !.postal_code = Coalesce(SqlText(updates.PostalCode), @),
                       !.driving_license = Coalesce(SqlText(updates.DrivingLicense), @),
                       !.updated_at = t]
         IN [err |-> "", store |-> (st \ {old}) \cup {new},
             profile |-> Some(ScanProfile(new))]

\* Variant: the number of rows affected is not looked at.
DeleteProfile_IgnoresRowsAffected(st, userID) ==
    [err |-> "", store |-> st \ RowsOf(st, userID)]

\* DELETE ... WHERE user_id = $1; RowsAffected() = 0 is an error.
DeleteProfile(st, userID) ==
    IF RowsOf(st, userID) = {}
    THEN [err |-> "profile not found for user ID", store |-> st]
    ELSE [err |-> "", store |-> st \ RowsOf(st, userID)]

(***************************************************************************)
(* Redis cache (internal/repository/redis).  ca maps a user id to the      *)
(* JSON document stored under "user_profile:<id>", or to Nil.              *)
(***************************************************************************)
\* json.Marshal(profile): the object keyed by the struct's json tags.
Marshal(p) ==
    [id |-> p.ID, user_id |-> p.UserID, first_name |-> p.FirstName,
     last_name |-> p.LastName, phone |-> p.Phone, date_of_birth |-> p.DateOfBirth,
     avatar_url |-> p.AvatarURL, address |-> p.Address, city |-> p.City,
     country |-> p.Country, postal_code |-> p.PostalCode,
     driving_license |-> p.DrivingLicense,
     created_at |-> p.CreatedAt, updated_at |-> p.UpdatedAt]

\* Variant: the phone field's json tag does not match the stored key.
Unmarshal_PhoneTagMismatch(j) ==
    [ID |-> j.id, UserID |-> j.user_id, FirstName |-> j.first_name,
     LastName |-> j.last_name, Phone |-> "", DateOfBirth |-> j.date_of_birth,
     AvatarURL |-> j.avatar_url, Address |-> j.address, City |-> j.city,
     Country |-> j.country, PostalCode |-> j.postal_code,
     DrivingLicense |-> j.driving_license,
     CreatedAt |-> j.created_at, UpdatedAt |-> j.updated_at]

\* json.Unmarshal into models.UserProfile
Unmarshal(j) ==
    [ID |-> j.id, UserID |-> j.user_id, FirstName |-> j.first_name,
     LastName |-> j.last_name, Phone |-> j.phone, DateOfBirth |-> j.date_of_birth,
     AvatarURL |-> j.avatar_url, Address |-> j.address, City |-> j.city,
     Country |-> j.country, PostalCode |-> j.postal_code,
     DrivingLicense |-> j.driving_license,
     CreatedAt |-> j.created_at, UpdatedAt |-> j.updated_at]

\* Variant: the timestamps are left out of the document written.
CacheProfile_OmitsTimestamps(ca, profile) ==
    [ca EXCEPT ![profile.UserID] =
       Some([Marshal(profile) EXCEPT !.created_at = 0, !.updated_at = 0])]

CacheProfile(ca, profile) == [ca EXCEPT ![profile.UserID] = Some(Marshal(profile))]

\* redis.Nil is (nil, nil).
GetCachedProfile(ca, userID) ==
    IF ca[userID] = Nil THEN Nil ELSE Some(Unmarshal(ca[userID][1]))

\* Variant: the key deleted is not the key CacheProfile writes.
DeleteCachedProfile_OtherKey(ca, userID) == ca

DeleteCachedProfile(ca, userID) == [ca EXCEPT ![userID] = Nil]

\* The expiration client.Set is given with the document: r.ttl.
Expiration(ex, profile, ttl) == [ex EXCEPT ![profile.UserID] = Some(ttl)]

(***************************************************************************)
(* Start-up: config.Load and main.  Durations are counted in seconds.      *)
(***************************************************************************)
unitMap == [u \in {"h", "m", "s"} |-> CASE u = "h" -> 3600 [] u = "m" -> 60 [] u = "s" -> 1]

RECURSIVE SkipDigits(_, _)
SkipDigits(s, i) == IF i <= Len(s) /\ IsDigit(s[i]) THEN SkipDigits(s, i + 1) ELSE i

RECURSIVE SkipUnit(_, _)
SkipUnit(s, i) == IF i <= Len(s) /\ ~IsDigit(s[i]) THEN SkipUnit(s, i + 1) ELSE i

\* The groups <digits><unit> of s from position i on, added to d; -1 when a
\* group has no digits, no unit or an unknown unit.
RECURSIVE ParseGroups(_, _, _)
ParseGroups(s, i, d) ==
    IF i > Len(s) THEN d
    ELSE LET j == SkipDigits(s, i)
             k == SkipUnit(s, j)
         IN IF j = i \/ k # j + 1 THEN -1
            ELSE IF s[j] \notin DOMAIN unitMap THEN -1
            ELSE ParseGroups(s, k, d + Atoi(s, i, j - 1) * unitMap[s[j]])

\* time.ParseDuration on the values of CACHE_TTL.
ParseDuration(str) ==
    LET d == IF Runes(str) = <<>> THEN -1 ELSE ParseGroups(Runes(str), 1, 0)
    IN [err |-> d < 0, d |-> IF d < 0 THEN 0 ELSE d]

getEnv(value, defaultValue) == IF value # "" THEN value ELSE defaultValue

\* config.Load with the environment's CACHE_TTL ("" when unset).
Load(env) ==
    LET ttl == ParseDuration(getEnv(env, "1h"))
    IN IF ttl.err THEN [err |-> TRUE, cfg |-> Nil]
       ELSE [err |-> FALSE, cfg |-> Some([CacheURL |-> ttl.d])]

NewCacheRepository == [ttl |-> 1 * unitMap["h"]]

\* main: the process serves with the repositories it built, or has exited.
Main(env) ==
    LET l == Load(env)
    IN IF l.err
       THEN [CACHE_TTL |-> env, cfg |-> Nil, cacheRepo |-> Nil, serving |-> FALSE]
       ELSE [CACHE_TTL |-> env, cfg |-> l.cfg, cacheRepo |-> Some(NewCacheRepository),
             serving |-> TRUE]

(***************************************************************************)
(* ProfileService.  A call in progress is the record ps: pc names the      *)
(* network call it is about to make, profile and err are what it returns.  *)
(* w is the world the call acts on: the store, the cache, the database     *)
(* clock and the next generated row id.  Each operator below is one        *)
(* handler; applied to (ps, w, fault) it performs the call ps.pc names,    *)
(* which fails when fault is TRUE, and runs the handler's code up to the   *)
(* next network call.  io names the call made: "store", "cache" or "none". *)
(***************************************************************************)
Ret(ps, w, profile, err, io) ==
    [ps |-> [ps EXCEPT !.pc = "done", !.profile = profile, !.err = err],
     w |-> w, io |-> io]

Goto(ps, w, pc, profile, io) ==
    [ps |-> [ps EXCEPT !.pc = pc, !.profile = profile], w |-> w, io |-> io]

InvalidData(violations) ==
    [msg |-> "invalid data: map", wraps |-> ErrInvalidData.msg,
     detail |-> FormatValidationErrors(violations)]

\* Variant: a failed cache write fails the call.
CacheAndReturn_Fatal(ps, w, fault) ==
    IF fault
    THEN Ret(ps, w, Nil, Errorf("failed to cache profile", "cache fault"), "cache")
    ELSE Ret(ps, [w EXCEPT !.cache = CacheProfile(w.cache, ps.profile[1])],
             ps.profile, NoErr, "cache")

\* Variant: the handler returns the record without writing it to the cache.
CacheAndReturn_SkipsWrite(ps, w, fault) == Ret(ps, w, ps.profile, NoErr, "cache")

\* The best-effort s.cacheRepo.CacheProfile(ctx, profile) closing a handler.
CacheAndReturn(ps, w, fault) ==
    Ret(ps,
        IF fault THEN w ELSE [w EXCEPT !.cache = CacheProfile(w.cache, ps.profile[1])],
        ps.profile, NoErr, "cache")

\* Variant: a failed cache lookup fails the call instead of falling through.
GetUserProfile_CacheErrorFatal(ps, w, fault) ==
    CASE ps.pc = "cache_get" ->
           IF fault
           THEN Ret(ps, w, Nil, Errorf("failed to get profile", "cache fault"), "cache")
           ELSE IF GetCachedProfile(w.cache, ps.userID) # Nil
           THEN Ret(ps, w, GetCachedProfile(w.cache, ps.userID), NoErr, "cache")
           ELSE Goto(ps, w, "store_get", Nil, "cache")
      [] ps.pc = "store_get" ->
           IF fault
           THEN Ret(ps, w, Nil, Errorf("failed to get profile", "store fault"), "store")
           ELSE LET profile == GetProfileByUserID(w.store, ps.userID)
                IN IF profile = Nil
                   THEN Ret(ps, w, Nil, ErrProfileNotFound, "store")
                   ELSE Goto(ps, w, "cache_set", profile, "store")
      [] ps.pc = "cache_set" -> CacheAndReturn(ps, w, fault)

\* Variant: a record read from the store is returned without being cached.
GetUserProfile_NoCacheFill(ps, w, fault) ==
    CASE ps.pc = "cache_get" ->
           LET cachedProfile == IF fault THEN Nil ELSE GetCachedProfile(w.cache, ps.userID)
           IN IF cachedProfile # Nil
              THEN Ret(ps, w, cachedProfile, NoErr, "cache")
              ELSE Goto(ps, w, "store_get", Nil, "cache")
      [] ps.pc = "store_get" ->
           IF fault
           THEN Ret(ps, w, Nil, Errorf("failed to get profile", "store fault"), "store")
           ELSE LET profile == GetProfileByUserID(w.store, ps.userID)
                IN IF profile = Nil
                   THEN Ret(ps, w, Nil, ErrProfileNotFound, "store")
                   ELSE Ret(ps, w, profile, NoErr, "store")
      [] ps.pc = "cache_set" -> CacheAndReturn(ps, w, fault)

\* Variant: a cache hit is looked up in the store again before it is returned.
GetUserProfile_RevalidatesHit(ps, w, fault) ==
    CASE ps.pc = "cache_get" -> Goto(ps, w, "store_get", Nil, "cache")
      [] ps.pc = "store_get" ->
           IF fault
           THEN Ret(ps, w, Nil, Errorf("failed to get profile", "store fault"), "store")
           ELSE LET profile == GetProfileByUserID(w.store, ps.userID)
                IN IF profile = Nil
                   THEN Ret(ps, w, Nil, ErrProfileNotFound, "store")
                   ELSE Goto(ps, w, "cache_set", profile, "store")
      [] ps.pc = "cache_set" -> CacheAndReturn(ps, w, fault)

GetUserProfile(ps, w, fault) ==
    CASE ps.pc = "cache_get" ->
           LET cachedProfile == IF fault THEN Nil ELSE GetCachedProfile(w.cache, ps.userID)
           IN IF cachedProfile # Nil
              THEN Ret(ps, w, cachedProfile, NoErr, "cache")
              ELSE Goto(ps, w, "store_get", Nil, "cache")
      [] ps.pc = "store_get" ->
           IF fault
           THEN Ret(ps, w, Nil, Errorf("failed to get profile", "store fault"), "store")
           ELSE LET profile == GetProfileByUserID(w.store, ps.userID)
                IN IF profile = Nil
                   THEN Ret(ps, w, Nil, ErrProfileNotFound, "store")
                   ELSE Goto(ps, w, "cache_set", profile, "store")
      [] ps.pc = "cache_set" -> CacheAndReturn(ps, w, fault)

\* Variant: the handler inserts without looking for an existing profile first.
CreateUserProfile_NoExistenceCheck(ps, w, fault) ==
    CASE ps.pc = "store_get" ->
           IF ValidateStruct("Create", ps.req) # {}
           THEN Ret(ps, w, Nil, InvalidData(ValidateStruct("Create", ps.req)), "none")
           ELSE IF fault
           THEN Ret(ps, w, Nil,
                    Errorf("failed to check existing profile", "store fault"), "store")
           ELSE Goto(ps, w, "store_insert", Nil, "store")
      [] ps.pc = "store_insert" ->
           IF fault
           THEN Ret(ps, w, Nil, Errorf("failed to create profile", "store fault"), "store")
           ELSE LET r == CreateProfile(w.store, ps.req, w.nextID, w.now)
                IN IF r.err # ""
                   THEN Ret(ps, w, Nil, Errorf("failed to create profile", r.err), "store")
                   ELSE Goto(ps, [w EXCEPT !.store = r.store, !.now = @ + 1,
                                           !.nextID = @ + 1],
                             "cache_set", r.profile, "store")
      [] ps.pc = "cache_set" -> CacheAndReturn(ps, w, fault)

CreateUserProfile(ps, w, fault) ==
    CASE ps.pc = "store_get" ->
           IF ValidateStruct("Create", ps.req) # {}
           THEN Ret(ps, w, Nil, InvalidData(ValidateStruct("Create", ps.req)), "none")
           ELSE IF fault
           THEN Ret(ps, w, Nil,
                    Errorf("failed to check existing profile", "store fault"), "store")
           ELSE IF GetProfileByUserID(w.store, ps.req.UserID) # Nil
           THEN Ret(ps, w, Nil, ErrProfileAlreadyExists, "store")
           ELSE Goto(ps, w, "store_insert", Nil, "store")
      [] ps.pc = "store_insert" ->
           IF fault
           THEN Ret(ps, w, Nil, Errorf("failed to create profile", "store fault"), "store")
           ELSE LET r == CreateProfile(w.store, ps.req, w.nextID, w.now)
                IN IF r.err # ""
                   THEN Ret(ps, w, Nil, Errorf("failed to create profile", r.err), "store")
                   ELSE Goto(ps, [w EXCEPT !.store = r.store, !.now = @ + 1,
                                           !.nextID = @ + 1],
                             "cache_set", r.profile, "store")
      [] ps.pc = "cache_set" -> CacheAndReturn(ps, w, fault)

\* Variant: the request is validated after the existence lookup.
UpdateUserProfile_LookupFirst(ps, w, fault) ==
    CASE ps.pc = "store_get" ->
           IF fault
           THEN Ret(ps, w, Nil,
                    Errorf("failed to get existing profile", "store fault"), "store")
           ELSE IF GetProfileByUserID(w.store, ps.userID) = Nil
           THEN Ret(ps, w, Nil, ErrProfileNotFound, "store")
           ELSE IF ValidateStruct("Update", ps.req) # {}
           THEN Ret(ps, w, Nil, InvalidData(ValidateStruct("Update", ps.req)), "store")
           ELSE Goto(ps, w, "store_update", Nil, "store")
      [] ps.pc = "store_update" ->
           IF fault
           THEN Ret(ps, w, Nil, Errorf("failed to update profile", "store fault"), "store")
           ELSE LET r == UpdateProfile(w.store, ps.userID, ps.req, w.now)
                IN IF r.profile = Nil
                   THEN Ret(ps, w, Nil, Errorf("profile update failed", ""), "store")
                   ELSE Goto(ps, [w EXCEPT !.store = r.store, !.now = @ + 1],
                             "cache_set", r.profile, "store")
      [] ps.pc = "cache_set" -> CacheAndReturn(ps, w, fault)

\* Variant: the updated record is returned without being cached.
UpdateUserProfile_NoCacheWrite(ps, w, fault) ==
    CASE ps.pc = "store_get" ->
           IF ValidateStruct("Update", ps.req) # {}
           THEN Ret(ps, w, Nil, InvalidData(ValidateStruct("Update", ps.req)), "none")
           ELSE IF fault
           THEN Ret(ps, w, Nil,
                    Errorf("failed to get existing profile", "store fault"), "store")
           ELSE IF GetProfileByUserID(w.store, ps.userID) = Nil
           THEN Ret(ps, w, Nil, ErrProfileNotFound, "store")
           ELSE Goto(ps, w, "store_update", Nil, "store")
      [] ps.pc = "store_update" ->
           IF fault
           THEN Ret(ps, w, Nil, Errorf("failed to update profile", "store fault"), "store")
           ELSE LET r == UpdateProfile(w.store, ps.userID, ps.req, w.now)
                IN IF r.profile = Nil
                   THEN Ret(ps, w, Nil, Errorf("profile update failed", ""), "store")
                   ELSE Ret(ps, [w EXCEPT !.store = r.store, !.now = @ + 1],
                            r.profile, NoErr, "store")
      [] ps.pc = "cache_set" -> CacheAndReturn(ps, w, fault)

UpdateUserProfile(ps, w, fault) ==
    CASE ps.pc = "store_get" ->
           IF ValidateStruct("Update", ps.req) # {}
           THEN Ret(ps, w, Nil, InvalidData(ValidateStruct("Update", ps.req)), "none")
           ELSE IF fault
           THEN Ret(ps, w, Nil,
                    Errorf("failed to get existing profile", "store fault"), "store")
           ELSE IF GetProfileByUserID(w.store, ps.userID) = Nil
           THEN Ret(ps, w, Nil, ErrProfileNotFound, "store")
           ELSE Goto(ps, w, "store_update", Nil, "store")
      [] ps.pc = "store_update" ->
           IF fault
           THEN Ret(ps, w, Nil, Errorf("failed to update profile", "store fault"), "store")
           ELSE LET r == UpdateProfile(w.store, ps.userID, ps.req, w.now)
                IN IF r.profile = Nil
                   THEN Ret(ps, w, Nil, Errorf("profile update failed", ""), "store")
                   ELSE Goto(ps, [w EXCEPT !.store = r.store, !.now = @ + 1],
                             "cache_set", r.profile, "store")
      [] ps.pc = "cache_set" -> CacheAndReturn(ps, w, fault)

\* Variant: the handler deletes without looking the profile up first.
DeleteUserProfile_NoLookup(ps, w, fault) ==
    CASE ps.pc = "store_get" -> Goto(ps, w, "store_delete", Nil, "none")
      [] ps.pc = "store_delete" ->
           IF fault
           THEN Ret(ps, w, Nil, Errorf("failed to delete profile", "store fault"), "store")
           ELSE LET r == DeleteProfile(w.store, ps.userID)
                IN IF r.err # ""
                   THEN Ret(ps, w, Nil, Errorf("failed to delete profile", r.err), "store")
                   ELSE Goto(ps, [w EXCEPT !.store = r.store], "cache_del", Nil, "store")
      [] ps.pc = "cache_del" ->
           Ret(ps,
               IF fault THEN w
               ELSE [w EXCEPT !.cache = DeleteCachedProfile(w.cache, ps.userID)],
               Nil, NoErr, "cache")

\* Variant: the cache entry is evicted before the row is deleted.
DeleteUserProfile_EvictsFirst(ps, w, fault) ==
    CASE ps.pc = "store_get" ->
           IF fault
           THEN Ret(ps, w, Nil,
                    Errorf("failed to get existing profile", "store fault"), "store")
           ELSE IF GetProfileByUserID(w.store, ps.userID) = Nil
           THEN Ret(ps, w, Nil, ErrProfileNotFound, "store")
           ELSE Goto(ps, w, "cache_del", Nil, "store")
      [] ps.pc = "cache_del" ->
           Goto(ps,
                IF fault THEN w
                ELSE [w EXCEPT !.cache = DeleteCachedProfile(w.cache, ps.userID)],
                "store_delete", Nil, "cache")
      [] ps.pc = "store_delete" ->
           IF fault
           THEN Ret(ps, w, Nil, Errorf("failed to delete profile", "store fault"), "store")
           ELSE LET r == DeleteProfile(w.store, ps.userID)
                IN IF r.err # ""
                   THEN Ret(ps, w, Nil, Errorf("failed to delete profile", r.err), "store")
                   ELSE Ret(ps, [w EXCEPT !.store = r.store], Nil, NoErr, "store")

DeleteUserProfile(ps, w, fault) ==
    CASE ps.pc = "store_get" ->
           IF fault
           THEN Ret(ps, w, Nil,
                    Errorf("failed to get existing profile", "store fault"), "store")
           ELSE IF GetProfileByUserID(w.store, ps.userID) = Nil
           THEN Ret(ps, w, Nil, ErrProfileNotFound, "store")
           ELSE Goto(ps, w, "store_delete", Nil, "store")
      [] ps.pc = "store_delete" ->
           IF fault
           THEN Ret(ps, w, Nil, Errorf("failed to delete profile", "store fault"), "store")
           ELSE LET r == DeleteProfile(w.store, ps.userID)
                IN IF r.err # ""
                   THEN Ret(ps, w, Nil, Errorf("failed to delete profile", r.err), "store")
                   ELSE Goto(ps, [w EXCEPT !.store = r.store], "cache_del", Nil, "store")
      [] ps.pc = "cache_del" ->
           Ret(ps,
               IF fault THEN w
               ELSE [w EXCEPT !.cache = DeleteCachedProfile(w.cache, ps.userID)],
               Nil, NoErr, "cache")

\* Variant: the loop over the cache misses ends after its first identifier.
NextMissing_StopsAtFirst(ps, w, profiles, io) == Ret(ps, w, profiles, NoErr, io)

\* The loop over the cache misses moves to its next identifier or returns.
NextMissing(ps, w, profiles, io) ==
    IF ps.loop.i < Len(ps.loop.missingFromCache)
    THEN [ps |-> [ps EXCEPT !.pc = "store_get", !.profile = profiles, !.loop.i = @ + 1],
          w |-> w, io |-> io]
    ELSE Ret(ps, w, profiles, NoErr, io)

\* Variant: a failed store lookup fails the batch.
GetMultipleProfiles_StoreErrorAborts(ps, w, fault) ==
    LET userIDs == ps.req.UserIDs
        missingFromCache == ps.loop.missingFromCache
    IN CASE ps.pc = "cache_get" ->
              LET userID == userIDs[ps.loop.i]
                  cachedProfile ==
                    IF fault THEN Nil ELSE GetCachedProfile(w.cache, userID)
                  profiles == IF cachedProfile # Nil
                              THEN Append(ps.profile, cachedProfile[1])
                              ELSE ps.profile
                  missing == IF cachedProfile # Nil
                             THEN missingFromCache
                             ELSE Append(missingFromCache, userID)
              IN IF ps.loop.i < Len(userIDs)
                 THEN [ps |-> [ps EXCEPT !.profile = profiles,
                                         !.loop = [i |-> ps.loop.i + 1,
                                                   missingFromCache |-> missing]],
                       w |-> w, io |-> "cache"]
                 ELSE IF missing = <<>>
                 THEN Ret(ps, w, profiles, NoErr, "cache")
                 ELSE [ps |-> [ps EXCEPT !.pc = "store_get", !.profile = profiles,
                                         !.loop = [i |-> 1,
                                                   missingFromCache |-> missing]],
                       w |-> w, io |-> "cache"]
         [] ps.pc = "store_get" ->
              IF fault
              THEN Ret(ps, w, Nil, Errorf("failed to get profiles", "store fault"), "store")
              ELSE LET profile == GetProfileByUserID(w.store, missingFromCache[ps.loop.i])
                   IN IF profile = Nil
                      THEN NextMissing(ps, w, ps.profile, "store")
                      ELSE Goto(ps, w, "cache_set", Append(ps.profile, profile[1]), "store")
         [] ps.pc = "cache_set" ->
              NextMissing(ps,
                          IF fault THEN w
                          ELSE [w EXCEPT !.cache =
                                  CacheProfile(w.cache, ps.profile[Len(ps.profile)])],
                          ps.profile, "cache")

\* ps.profile is the slice `profiles`, ps.loop.i the position of the running loop.
GetMultipleProfiles(ps, w, fault) ==
    LET userIDs == ps.req.UserIDs
        missingFromCache == ps.loop.missingFromCache
    IN CASE ps.pc = "cache_get" ->
              IF userIDs = <<>> THEN Ret(ps, w, <<>>, NoErr, "none")
              ELSE LET userID == userIDs[ps.loop.i]
                       cachedProfile ==
                         IF fault THEN Nil ELSE GetCachedProfile(w.cache, userID)
                       profiles == IF cachedProfile # Nil
                                   THEN Append(ps.profile, cachedProfile[1])
                                   ELSE ps.profile
                       missing == IF cachedProfile # Nil
                                  THEN missingFromCache
                                  ELSE Append(missingFromCache, userID)
                   IN IF ps.loop.i < Len(userIDs)
                      THEN [ps |-> [ps EXCEPT !.profile = profiles,
                                              !.loop = [i |-> ps.loop.i + 1,
                                                        missingFromCache |-> missing]],
                            w |-> w, io |-> "cache"]
                      ELSE IF missing = <<>>
                      THEN Ret(ps, w, profiles, NoErr, "cache")
                      ELSE [ps |-> [ps EXCEPT !.pc = "store_get", !.profile = profiles,
                                              !.loop = [i |-> 1,
                                                        missingFromCache |-> missing]],
                            w |-> w, io |-> "cache"]
         [] ps.pc = "store_get" ->
              LET profile ==
                    IF fault THEN Nil
                    ELSE GetProfileByUserID(w.store, missingFromCache[ps.loop.i])
              IN IF profile = Nil
                 THEN NextMissing(ps, w, ps.profile, "store")
                 ELSE Goto(ps, w, "cache_set", Append(ps.profile, profile[1]), "store")
         [] ps.pc = "cache_set" ->
              NextMissing(ps,
                          IF fault THEN w
                          ELSE [w EXCEPT !.cache =
                                  CacheProfile(w.cache, ps.profile[Len(ps.profile)])],
                          ps.profile, "cache")

Handle(ps, w, fault) ==
    CASE ps.op = "Get" -> GetUserProfile(ps, w, fault)
      [] ps.op = "Create" -> CreateUserProfile(ps, w, fault)
      [] ps.op = "Update" -> UpdateUserProfile(ps, w, fault)
      [] ps.op = "Delete" -> DeleteUserProfile(ps, w, fault)
      [] ps.op = "Batch" -> GetMultipleProfiles(ps, w, fault)

\* A call run to completion on its own from (ps, w); f tells which of its network
\* calls fail: the store lookup, the store write, the cache calls.
FaultPatterns == [lookup : BOOLEAN, write : BOOLEAN, cache : BOOLEAN]

FaultAt(f, pc) ==
    CASE pc = "store_get" -> f.lookup
      [] pc \in {"store_insert", "store_update", "store_delete"} -> f.write
      [] OTHER -> f.cache

RECURSIVE Run(_, _, _)
Run(ps, w, f) ==
    IF ps.pc = "done" THEN [ps |-> ps, w |-> w]
    ELSE LET r == Handle(ps, w, FaultAt(f, ps.pc)) IN Run(r.ps, r.w, f)

(***************************************************************************)
(* ProfileHandler: the gRPC status of a finished call.  The switch         *)
(* compares the returned error with the sentinels by ==.                   *)
(***************************************************************************)
Status(op, err) ==
    CASE err = NoErr -> "OK"
      [] err = ErrProfileNotFound /\ op \in {"Get", "Update", "Delete"} -> "NotFound"
      [] err = ErrProfileAlreadyExists /\ op = "Create" -> "AlreadyExists"
      [] err = ErrInvalidData /\ op \in {"Create", "Update"} -> "InvalidArgument"
      [] OTHER -> "Internal"

\* Variant: the default branch answers with the error's own text.
StatusMessage_LeakDetail(op, err) ==
    CASE err = NoErr -> ""
      [] err = ErrProfileNotFound /\ op \in {"Get", "Update", "Delete"} -> "profile not found"
      [] err = ErrProfileAlreadyExists /\ op = "Create" -> "profile already exists"
      [] err = ErrInvalidData /\ op \in {"Create", "Update"} -> err.msg
      [] OTHER -> err.msg

\* The message of status.Error in each branch of the switch.
StatusMessage(op, err) ==
    CASE err = NoErr -> ""
      [] err = ErrProfileNotFound /\ op \in {"Get", "Update", "Delete"} -> "profile not found"
      [] err = ErrProfileAlreadyExists /\ op = "Create" -> "profile already exists"
      [] err = ErrInvalidData /\ op \in {"Create", "Update"} -> err.msg
      [] OTHER -> "internal server error"

\* The error taxonomy of the service's returns.
Kind(err) ==
    CASE err = NoErr -> "OK"
      [] ErrorsIs(err, ErrProfileNotFound) -> "NotFound"
      [] ErrorsIs(err, ErrProfileAlreadyExists) -> "AlreadyExists"
      [] ErrorsIs(err, ErrInvalidData) -> "InvalidInput"
      [] err.msg \in {"failed to get profile", "failed to check existing profile",
                      "failed to get existing profile"} -> "LookupFailed"
      [] OTHER -> "WriteFailed"

(***************************************************************************)
(* State.  store: the rows of user_profiles.  cache: the Redis entries.    *)
(* call[p]: the request task p is serving.  now: the database clock;       *)
(* nextID: the next generated row id; calls: requests received so far.     *)
(* ghost[p] records the history of p's call for the properties below and   *)
(* is never read by the service:                                           *)
(*   row0, cached0  the store record and cache entry of the call's user    *)
(*                  when the call began;                                   *)
(*   log            one entry per step: the call made, whether it failed,  *)
(*                  whether the step changed the store or the cache;       *)
(*   during         another task changed the user's record or cache entry  *)
(*                  while the call ran;                                    *)
(*   gone           the user's record has been removed since the call      *)
(*                  began;                                                 *)
(*   prev           the task's previous call, if it is one Kept, and       *)
(*                  whether it ran clean: no failed call, no change by     *)
(*                  another task;                                          *)
(*   since          another task changed the previous call's user's record *)
(*                  or cache entry after that call completed;              *)
(*   direct         at completion: nothing of the sort happened between    *)
(*                  the previous call's completion and this one's;         *)
(*   rows0,         for a batch read, every user's store record and cache  *)
(*   entries0       entry when the call began.                             *)
(* A log entry also names the pc of the call made and the user it was for. *)
(***************************************************************************)
NoLoop == [i |-> 1, missingFromCache |-> <<>>]

Idle == [pc |-> "idle", op |-> "", userID |-> "", req |-> Nil, profile |-> Nil,
         err |-> NoErr, loop |-> NoLoop]

NoGhost == [row0 |-> Nil, cached0 |-> Nil, log |-> <<>>, during |-> FALSE,
            gone |-> FALSE, prev |-> Nil, since |-> FALSE, direct |-> FALSE,
            rows0 |-> Nil, entries0 |-> Nil]

World == [store |-> store, cache |-> cache, now |-> now, nextID |-> nextID]

InFlight(p) == call[p].pc \notin {"idle", "done"}

EntryOf(ca, u) == IF u \in UserIDs THEN ca[u] ELSE Nil

\* The store's record of user u as the properties see it, or Nil.
RecordOf(st, u) ==
    IF RowsOf(st, u) = {} THEN Nil
    ELSE Some(ScanProfile(CHOOSE r \in RowsOf(st, u) : TRUE))

Init ==
    /\ store = {}
    /\ cache = [u \in UserIDs |-> Nil]
    /\ call = [p \in Procs |-> Idle]
    /\ now = 1
    /\ nextID = 1
    /\ calls = 0
    /\ ghost = [p \in Procs |-> NoGhost]
    /\ srv = Main("")
    /\ expires = [u \in UserIDs |-> Nil]

Faulty(log) == \E i \in 1..Len(log) : log[i].failed

\* A finished call that the next call of the task is related to: a Create or a
\* Delete that succeeded.
Kept(q) ==
    /\ call[q].pc = "done"
    /\ call[q].op \in {"Create", "Delete"}
    /\ call[q].err = NoErr

\* A request arrives and its handler starts on task p (which has answered its
\* previous request).
Begin(p, op, userID, req, pc) ==
    /\ srv.serving
    /\ call[p].pc \in {"idle", "done"}
    /\ calls < MaxCalls
    /\ calls' = calls + 1
    /\ call' = [call EXCEPT ![p] = [pc |-> pc, op |-> op, userID |-> userID,
                                    req |-> req, profile |-> Nil, err |-> NoErr,
                                    loop |-> NoLoop]]
    /\ ghost' = [ghost EXCEPT ![p] =
                   [row0 |-> RecordOf(store, userID),
                    cached0 |-> EntryOf(cache, userID),
                    log |-> <<>>, during |-> FALSE, gone |-> FALSE,
                    prev |-> IF Kept(p)
                             THEN Some([op |-> call[p].op, userID |-> call[p].userID,
                                        req |-> call[p].req, profile |-> call[p].profile,
                                        clean |-> ~Faulty(ghost[p].log) /\ ~ghost[p].during])
                             ELSE Nil,
                    since |-> Kept(p) /\ ghost[p].since,
                    direct |-> FALSE,
                    rows0 |-> IF op = "Batch"
                              THEN [u \in UserIDs |-> RecordOf(store, u)] ELSE Nil,
                    entries0 |-> IF op = "Batch" THEN cache ELSE Nil]]
    /\ UNCHANGED <<store, cache, now, nextID, srv, expires>>

GetCall(p) == \E u \in GetReqs : Begin(p, "Get", u, [UserID |-> u], "cache_get")

CreateCall(p) == \E req \in CreateReqs : Begin(p, "Create", req.UserID, req, "store_get")

UpdateCall(p) == \E req \in UpdateReqs : Begin(p, "Update", req.UserID, req, "store_get")

DeleteCall(p) == \E u \in DeleteReqs : Begin(p, "Delete", u, [UserID |-> u], "store_get")

BatchCall(p) ==
    \E userIDs \in BatchReqs : Begin(p, "Batch", "", [UserIDs |-> userIDs], "cache_get")

\* The users a call is about, and the one its pending network call is about.
Users(q) ==
    IF call[q].op = "Batch"
    THEN {call[q].req.UserIDs[k] : k \in 1..Len(call[q].req.UserIDs)}
    ELSE {call[q].userID}

Key(ps) ==
    IF ps.op # "Batch" THEN ps.userID
    ELSE IF ps.pc = "cache_get" THEN ps.req.UserIDs[ps.loop.i]
    ELSE ps.loop.missingFromCache[ps.loop.i]

\* What the other tasks' ghosts note of a step from (store, cache) to (st2, ca2).
Changed(u, st2, ca2) ==
    u \in UserIDs /\ (RowsOf(st2, u) # RowsOf(store, u) \/ ca2[u] # cache[u])

Removed(u, st2) == RowsOf(store, u) # {} /\ RowsOf(st2, u) = {}

LastUser(q) ==
    IF Kept(q) THEN call[q].userID
    ELSE IF InFlight(q) /\ ghost[q].prev # Nil THEN ghost[q].prev[1].userID ELSE ""

Noted(q, st2, ca2) ==
    [ghost[q] EXCEPT
       !.during = @ \/ (InFlight(q) /\ \E u \in Users(q) : Changed(u, st2, ca2)),
       !.gone = @ \/ (call[q].pc # "idle" /\ Removed(call[q].userID, st2)),
       !.since = @ \/ Changed(LastUser(q), st2, ca2)]

IsCacheCall(pc) == pc \in {"cache_get", "cache_set", "cache_del"}

\* The expirations of the entries after the call ps makes, which leaves the
\* cache as ca2: a CacheProfile that succeeds sets its key's, a key without an
\* entry has none.
Expirations(ps, fault, ca2) ==
    LET set == IF ps.pc = "cache_set" /\ ~fault
               THEN Expiration(expires, ps.profile[Len(ps.profile)], srv.cacheRepo[1].ttl)
               ELSE expires
    IN [u \in UserIDs |-> IF ca2[u] = Nil THEN Nil ELSE set[u]]

\* Task p performs the network call its handler is waiting on; storeFaults and
\* cacheFaults tell whether a store call and a cache call can fail, succeed.
Perform(p, op, storeFaults, cacheFaults) ==
    /\ InFlight(p)
    /\ call[p].op = op
    /\ \E fault \in (IF IsCacheCall(call[p].pc) THEN cacheFaults ELSE storeFaults) :
         LET r == Handle(call[p], World, fault)
             entry == [io |-> r.io, failed |-> fault /\ r.io # "none",
                       wrote |-> r.w.store # store \/ r.w.cache # cache,
                       pc |-> call[p].pc, key |-> Key(call[p])]
         IN /\ call' = [call EXCEPT ![p] = r.ps]
            /\ store' = r.w.store
            /\ cache' = r.w.cache
            /\ now' = r.w.now
            /\ nextID' = r.w.nextID
            /\ expires' = Expirations(call[p], fault, r.w.cache)
            /\ ghost' = [q \in Procs |->
                           IF q # p THEN Noted(q, r.w.store, r.w.cache)
                           ELSE IF r.ps.pc = "done"
                           THEN [ghost[p] EXCEPT !.log = Append(@, entry),
                                                 !.gone = @ \/ Removed(call[p].userID, r.w.store),
                                                 !.direct = ~ghost[p].since,
                                                 !.since = FALSE]
                           ELSE [ghost[p] EXCEPT !.log = Append(@, entry),
                                                 !.gone = @ \/ Removed(call[p].userID, r.w.store)]]
    /\ UNCHANGED <<calls, srv>>

Step(p, op) == Perform(p, op, BOOLEAN, BOOLEAN)

GetStep(p) == Step(p, "Get")

CreateStep(p) == Step(p, "Create")

UpdateStep(p) == Step(p, "Update")

DeleteStep(p) == Step(p, "Delete")

BatchStep(p) == Step(p, "Batch")

\* A cache entry reaches its time-to-live and Redis drops it.
Expire(u) ==
    /\ cache[u] # Nil
    /\ cache' = [cache EXCEPT ![u] = Nil]
    /\ expires' = [expires EXCEPT ![u] = Nil]
    /\ UNCHANGED <<store, call, now, nextID, calls, ghost, srv>>

Next ==
    \/ \E p \in Procs : GetCall(p)
    \/ \E p \in Procs : CreateCall(p)
    \/ \E p \in Procs : UpdateCall(p)
    \/ \E p \in Procs : DeleteCall(p)
    \/ \E p \in Procs : GetStep(p)
    \/ \E p \in Procs : CreateStep(p)
    \/ \E p \in Procs : UpdateStep(p)
    \/ \E p \in Procs : DeleteStep(p)
    \/ \E u \in UserIDs : Expire(u)

Spec == Init /\ [][Next]_vars

\* The service serving one client that creates and deletes profiles and another
\* that reads them in batches.
BatchNext ==
    \/ CreateCall(1)
    \/ DeleteCall(1)
    \/ BatchCall(2)
    \/ \E p \in Procs : CreateStep(p)
    \/ \E p \in Procs : DeleteStep(p)
    \/ \E p \in Procs : BatchStep(p)
    \/ \E u \in UserIDs : Expire(u)

BatchSpec == Init /\ [][BatchNext]_vars

Ops == {"Get", "Create", "Update", "Delete", "Batch"}

\* The service with store and cache that never fail and entries that do not
\* expire, serving concurrent Get, Create, Update and Delete calls.
QuietStep(p) == \E op \in Ops : Perform(p, op, {FALSE}, {FALSE})

QuietNext ==
    \/ \E p \in Procs : GetCall(p)
    \/ \E p \in Procs : CreateCall(p)
    \/ \E p \in Procs : UpdateCall(p)
    \/ \E p \in Procs : DeleteCall(p)
    \/ \E p \in Procs : QuietStep(p)

QuietSpec == Init /\ [][QuietNext]_vars

\* The same service started with each of these values of CACHE_TTL ("" is the
\* variable unset).
CacheTTLValues == {"", "1h", "30m", "1h30m", "90", "abc"}

TTLInit ==
    /\ store = {}
    /\ cache = [u \in UserIDs |-> Nil]
    /\ call = [p \in Procs |-> Idle]
    /\ now = 1
    /\ nextID = 1
    /\ calls = 0
    /\ ghost = [p \in Procs |-> NoGhost]
    /\ srv \in {Main(env) : env \in CacheTTLValues}
    /\ expires = [u \in UserIDs |-> Nil]

TTLSpec == TTLInit /\ [][QuietNext]_vars

\* The service serving one call at a time, with a cache that never fails.
Quiescent == \A q \in Procs : ~InFlight(q)

SerialCall(p) ==
    /\ Quiescent
    /\ \/ GetCall(p)
       \/ CreateCall(p)
       \/ UpdateCall(p)
       \/ DeleteCall(p)
       \/ BatchCall(p)

SerialStep(p) == \E op \in Ops : Perform(p, op, BOOLEAN, {FALSE})

SerialNext ==
    \/ \E p \in Procs : SerialCall(p)
    \/ \E p \in Procs : SerialStep(p)
    \/ \E u \in UserIDs : Expire(u)

SerialSpec == Init /\ [][SerialNext]_vars

\* The service serving one call at a time, of any of the five operations, with a
\* cache that can fail and a store that does not.
FaultyStep(p) == \E op \in Ops : Perform(p, op, {FALSE}, BOOLEAN)

FaultySerialNext ==
    \/ \E p \in Procs : SerialCall(p)
    \/ \E p \in Procs : FaultyStep(p)
    \/ \E u \in UserIDs : Expire(u)

FaultySerialSpec == Init /\ [][FaultySerialNext]_vars

(***************************************************************************)
(* Properties.                                                             *)
(***************************************************************************)
Done(p, op) == call[p].pc = "done" /\ call[p].op = op

User(p) == call[p].userID

Valid(p) == ValidateStruct(call[p].op, call[p].req) = {}

StoreFault(p) ==
    \E i \in 1..Len(ghost[p].log) : ghost[p].log[i].io = "store" /\ ghost[p].log[i].failed

CacheFault(p) ==
    \E i \in 1..Len(ghost[p].log) : ghost[p].log[i].io = "cache" /\ ghost[p].log[i].failed

Wrote(p) == \E i \in 1..Len(ghost[p].log) : ghost[p].log[i].wrote

\* C1: a Create for a user whose record existed when the call began and has not
\* been removed since never succeeds: it fails with AlreadyExists (status
\* AlreadyExists) when the request is valid and the existence lookup does not
\* fault, with InvalidInput when the request is invalid and with LookupFailed when
\* the lookup faults; the call changes nothing, and the store still holds exactly
\* one record for the user, the one with the identifier it had before.
C1_SecondCreateAlreadyExists ==
    \A p \in Procs :
      (Done(p, "Create") /\ ghost[p].row0 # Nil /\ ~ghost[p].gone) =>
        /\ call[p].err # NoErr
        /\ call[p].profile = Nil
        /\ (Valid(p) /\ ~StoreFault(p)) =>
              (call[p].err = ErrProfileAlreadyExists
               /\ Status("Create", call[p].err) = "AlreadyExists")
        /\ ~Valid(p) => Kind(call[p].err) = "InvalidInput"
        /\ (Valid(p) /\ StoreFault(p)) => Kind(call[p].err) = "LookupFailed"
        /\ ~Wrote(p)
        /\ Cardinality(RowsOf(store, User(p))) = 1
        /\ \A r \in RowsOf(store, User(p)) : r.id = ghost[p].row0[1].ID

C1_Witness ==
    \E p \in Procs :
      /\ Done(p, "Create") /\ ghost[p].row0 # Nil /\ ~ghost[p].gone
      /\ call[p].err = ErrProfileAlreadyExists
      /\ ghost[p].prev # Nil /\ ghost[p].prev[1].op = "Create"
      /\ ghost[p].prev[1].userID = User(p)

\* C2: a Create whose insert the store's uniqueness constraint rejects fails with
\* AlreadyExists, and its RPC status is AlreadyExists.
C2_RaceLoserAlreadyExists ==
    \A p \in Procs :
      (Done(p, "Create") /\ call[p].err.wraps = "unique_violation") =>
        /\ Kind(call[p].err) = "AlreadyExists"
        /\ Status("Create", call[p].err) = "AlreadyExists"

\* C3: the store never holds two records with the same user id or the same
\* identifier, and no step changes the identifier, the user id or the created
\* timestamp of a record that stays in the store.
UniqueRows ==
    \A r1, r2 \in store : (r1.user_id = r2.user_id \/ r1.id = r2.id) => r1 = r2

KeepsIdentity ==
    \A r1 \in store : \A r2 \in store' :
      (r1.user_id = r2.user_id \/ r1.id = r2.id) =>
        (r2.id = r1.id /\ r2.user_id = r1.user_id /\ r2.created_at = r1.created_at)

C3_UniqueAndImmutable == [](UniqueRows) /\ [][KeepsIdentity]_vars

\* A record that an Update has rewritten, next to another user's record.
C3_Witness ==
    \E r1, r2 \in store :
      r1.user_id # r2.user_id /\ r1.updated_at > r1.created_at

\* C4: a successful Update undisturbed by other tasks returns and stores the
\* merge-patch of the record it found: a field the request leaves empty keeps its
\* stored value, a non-empty field is overwritten, the updated timestamp is
\* refreshed, identifier, user id and created timestamp are kept.
Patch(reqValue, stored) == IF reqValue = "" THEN stored ELSE reqValue

MergePatched(old, req, new) ==
    /\ new.FirstName = Patch(req.FirstName, old.FirstName)
    /\ new.LastName = Patch(req.LastName, old.LastName)
    /\ new.Phone = Patch(req.Phone, old.Phone)
    /\ new.DateOfBirth = Patch(req.DateOfBirth, old.DateOfBirth)
    /\ new.AvatarURL = Patch(req.AvatarURL, old.AvatarURL)
    /\ new.Address = Patch(req.Address, old.Address)
    /\ new.City = Patch(req.City, old.City)
    /\ new.Country = Patch(req.Country, old.Country)
    /\ new.PostalCode = Patch(req.PostalCode, old.PostalCode)
    /\ new.DrivingLicense = Patch(req.DrivingLicense, old.DrivingLicense)
    /\ new.UpdatedAt > old.UpdatedAt
    /\ new.ID = old.ID /\ new.UserID = old.UserID /\ new.CreatedAt = old.CreatedAt

C4_UpdateMergePatch ==
    \A p \in Procs :
      (Done(p, "Update") /\ call[p].err = NoErr /\ ghost[p].row0 # Nil
       /\ ~ghost[p].during) =>
        /\ call[p].profile # Nil
        /\ MergePatched(ghost[p].row0[1], call[p].req, call[p].profile[1])

\* C5 as claimed: once a Delete has returned success, and until another task
\* changes the user's record or cache entry, neither the store nor the cache holds
\* an entry for the user, and the task's next call, a Get for the user with no such
\* change in between, fails with NotFound unless its store lookup faults.
AfterDelete(q) ==
    /\ Done(q, "Get")
    /\ ghost[q].prev # Nil
    /\ ghost[q].prev[1].op = "Delete"
    /\ ghost[q].prev[1].userID = User(q)
    /\ ghost[q].direct

C5_DeleteRemovesStoreAndCache ==
    /\ \A p \in Procs :
         (Done(p, "Delete") /\ call[p].err = NoErr /\ ~ghost[p].since) =>
           (RowsOf(store, User(p)) = {} /\ cache[User(p)] = Nil)
    /\ \A q \in Procs :
         (AfterDelete(q) /\ ~StoreFault(q)) => call[q].err = ErrProfileNotFound

\* C5 as amended: the same for a Delete during which no other task changed the
\* user's record or cache entry, the cache entry being gone provided the eviction
\* did not fail; the Get that follows such a Delete whose eviction did not fail
\* fails with NotFound, or with LookupFailed when its store lookup faults.
C5_DeleteRemovesUnlessEvictionFails ==
    /\ \A p \in Procs :
         (Done(p, "Delete") /\ call[p].err = NoErr /\ ~ghost[p].during
          /\ ~ghost[p].since) =>
           /\ RowsOf(store, User(p)) = {}
           /\ ~CacheFault(p) => cache[User(p)] = Nil
    /\ \A q \in Procs :
         (AfterDelete(q) /\ ghost[q].prev[1].clean) =>
           /\ call[q].profile = Nil
           /\ ~StoreFault(q) =>
                (call[q].err = ErrProfileNotFound
                 /\ Status("Get", call[q].err) = "NotFound")
           /\ StoreFault(q) => Kind(call[q].err) = "LookupFailed"

C5_Witness ==
    \E q \in Procs :
      /\ AfterDelete(q) /\ ghost[q].prev[1].clean
      /\ call[q].err = ErrProfileNotFound

\* C6: a Create that succeeds returns a record carrying the request's subject
\* identifier, names, phone and date of birth, with identifier and both timestamps
\* set; when no call of it failed and no other task changed the user's record or
\* cache entry while it ran or afterwards, the task's next call, a Get for the
\* user whose store lookup does not fault, returns that same record.
InputEqual(profile, req) ==
    /\ profile.UserID = req.UserID
    /\ profile.FirstName = req.FirstName
    /\ profile.LastName = req.LastName
    /\ profile.Phone = req.Phone
    /\ profile.DateOfBirth = req.DateOfBirth

Populated(profile) == profile.ID > 0 /\ profile.CreatedAt > 0 /\ profile.UpdatedAt > 0

AfterCreate(q) ==
    /\ Done(q, "Get")
    /\ ghost[q].prev # Nil
    /\ ghost[q].prev[1].op = "Create"
    /\ ghost[q].prev[1].userID = User(q)
    /\ ghost[q].prev[1].clean
    /\ ghost[q].direct
    /\ ~StoreFault(q)

C6_CreateThenGet ==
    /\ \A p \in Procs :
         (Done(p, "Create") /\ call[p].err = NoErr) =>
           /\ call[p].profile # Nil
           /\ InputEqual(call[p].profile[1], call[p].req)
           /\ Populated(call[p].profile[1])
    /\ \A q \in Procs :
         AfterCreate(q) =>
           /\ call[q].err = NoErr
           /\ call[q].profile = ghost[q].prev[1].profile
           /\ InputEqual(call[q].profile[1], ghost[q].prev[1].req)
           /\ Populated(call[q].profile[1])

C6_Witness ==
    \E q \in Procs :
      /\ AfterCreate(q)
      /\ call[q].profile # Nil
      /\ call[q].profile[1].Phone # ""
      /\ call[q].profile[1].DateOfBirth # ""

\* C7: a Get returns no error but NotFound or the failure of its store lookup,
\* whatever its cache calls do; when every cache call of it fails, the store
\* lookup does not, and no other task changes the user's record meanwhile, it
\* returns the store's record if there is one and fails with NotFound if not.
AllCacheCallsFailed(p) ==
    /\ \E i \in 1..Len(ghost[p].log) : ghost[p].log[i].io = "cache"
    /\ \A i \in 1..Len(ghost[p].log) :
         ghost[p].log[i].io = "cache" => ghost[p].log[i].failed

C7_GetSurvivesCacheOutage ==
    \A p \in Procs :
      Done(p, "Get") =>
        /\ \/ call[p].err = NoErr
           \/ call[p].err = ErrProfileNotFound
           \/ (Kind(call[p].err) = "LookupFailed" /\ call[p].err.wraps = "store fault"
               /\ StoreFault(p))
        /\ (AllCacheCallsFailed(p) /\ ~StoreFault(p) /\ ~ghost[p].during) =>
             /\ ghost[p].row0 # Nil =>
                  (call[p].err = NoErr /\ call[p].profile = ghost[p].row0
                   /\ Status("Get", call[p].err) = "OK")
             /\ ghost[p].row0 = Nil =>
                  (call[p].err = ErrProfileNotFound
                   /\ Status("Get", call[p].err) = "NotFound")

\* A Get that found the cache unreachable on both calls and answered from the store
\* although the cache held an entry for the user.
C7_Witness ==
    \E p \in Procs :
      /\ Done(p, "Get") /\ AllCacheCallsFailed(p) /\ Len(ghost[p].log) = 3
      /\ ghost[p].row0 # Nil /\ ghost[p].cached0 # Nil
      /\ call[p].err = NoErr

\* C8: for a Create, Update or Delete about to start, the result returned, the
\* error and the store at the end of the call are the same whatever the cache holds
\* and whichever cache calls fail, the store calls failing alike.
AltCaches ==
    LET entries == {Nil} \cup {cache[u] : u \in UserIDs}
                   \cup {Some(Marshal(ScanProfile(r))) : r \in store}
    IN {[u \in UserIDs |-> e] : e \in entries}

C8_CacheNeverDecides ==
    \A p \in Procs :
      (InFlight(p) /\ call[p].op \in {"Create", "Update", "Delete"}
       /\ call[p].pc = "store_get") =>
        \A f \in FaultPatterns : \A cf \in BOOLEAN : \A ca \in AltCaches :
          LET a == Run(call[p], World, f)
              b == Run(call[p], [World EXCEPT !.cache = ca], [f EXCEPT !.cache = cf])
          IN a.ps = b.ps /\ a.w.store = b.w.store

\* An Update that succeeded although its cache write failed, over a cache entry
\* that was there before.
C8_Witness ==
    \E p \in Procs :
      /\ Done(p, "Update") /\ call[p].err = NoErr
      /\ CacheFault(p) /\ ghost[p].cached0 # Nil

\* C9: a Get for a user with neither a store record nor a cache entry when it
\* began, undisturbed by other tasks, fails with NotFound (status NotFound), or
\* with LookupFailed when the store lookup faults, returns no record and changes
\* neither the store nor the cache.
C9_GetUnknownNotFound ==
    \A p \in Procs :
      (Done(p, "Get") /\ ghost[p].row0 = Nil /\ ghost[p].cached0 = Nil
       /\ ~ghost[p].during) =>
        /\ ~StoreFault(p) =>
             (call[p].err = ErrProfileNotFound
              /\ Status("Get", call[p].err) = "NotFound")
        /\ StoreFault(p) => Kind(call[p].err) = "LookupFailed"
        /\ call[p].profile = Nil
        /\ ~Wrote(p)

C9_Witness ==
    \E p \in Procs :
      /\ Done(p, "Get") /\ ghost[p].row0 = Nil /\ ghost[p].cached0 = Nil
      /\ ~ghost[p].during
      /\ call[p].err = ErrProfileNotFound
      /\ store # {}

\* C10: an Update with a valid request, or a Delete, for a user with no store
\* record when it began and none created meanwhile fails with NotFound (status
\* NotFound), or with LookupFailed (status Internal) when the store lookup faults,
\* and changes neither the store nor the cache, whatever the cache holds.
C10_UpdateDeleteUnknownNotFound ==
    \A p \in Procs :
      ((Done(p, "Update") \/ Done(p, "Delete")) /\ Valid(p) /\ ghost[p].row0 = Nil
       /\ ~ghost[p].during) =>
        /\ ~StoreFault(p) =>
             (call[p].err = ErrProfileNotFound
              /\ Status(call[p].op, call[p].err) = "NotFound")
        /\ StoreFault(p) =>
             (Kind(call[p].err) = "LookupFailed"
              /\ Status(call[p].op, call[p].err) = "Internal")
        /\ call[p].profile = Nil
        /\ ~Wrote(p)

\* An Update for a user without a record while the cache still holds an entry.
C10_Witness ==
    \E p \in Procs :
      /\ Done(p, "Update") /\ Valid(p) /\ ghost[p].row0 = Nil
      /\ ~ghost[p].during
      /\ ghost[p].cached0 # Nil
      /\ call[p].err = ErrProfileNotFound

\* C11: a Create or Update whose date of birth is non-empty and no calendar date
\* in YYYY-MM-DD form, or whose phone is non-empty and does not match the phone
\* pattern, fails with InvalidInput, and the error carries the rule's message
\* for the offending field.
C11_BadDateOrPhoneRejected ==
    \A p \in Procs :
      (Done(p, "Create") \/ Done(p, "Update")) =>
        /\ ~validateDate(call[p].req.DateOfBirth) =>
              /\ Kind(call[p].err) = "InvalidInput"
              /\ <<"DateOfBirth", Message("DateOfBirth", "date")>> \in call[p].err.detail
        /\ ~validatePhone(call[p].req.Phone) =>
              /\ Kind(call[p].err) = "InvalidInput"
              /\ <<"Phone", Message("Phone", "phone")>> \in call[p].err.detail

\* C12: a Create or Update whose request violates a rule of the validator fails
\* with InvalidInput carrying the formatted violations, returns no record, and
\* makes no store or cache call at all: nothing is written, whether or not the
\* user has a record (so neither AlreadyExists nor NotFound is ever answered).
C12_InvalidRejectedBeforeIO ==
    \A p \in Procs :
      ((Done(p, "Create") \/ Done(p, "Update")) /\ ~Valid(p)) =>
        /\ Kind(call[p].err) = "InvalidInput"
        /\ call[p].err.detail =
             FormatValidationErrors(ValidateStruct(call[p].op, call[p].req))
        /\ call[p].profile = Nil
        /\ Len(ghost[p].log) = 1
        /\ ghost[p].log[1].io = "none"
        /\ ~Wrote(p)

\* An invalid Create for a user who has a record, next to an invalid Update for a
\* user who has none.
C12_Witness ==
    \E p, q \in Procs :
      /\ Done(p, "Create") /\ ~Valid(p) /\ ghost[p].row0 # Nil
      /\ Kind(call[p].err) = "InvalidInput"
      /\ Done(q, "Update") /\ ~Valid(q) /\ ghost[q].row0 = Nil
      /\ Kind(call[q].err) = "InvalidInput"

\* C13: a Create or Update that the service fails with InvalidInput is answered
\* with status InvalidArgument.
C13_ValidationFailureInvalidArgument ==
    \A p \in Procs :
      ((Done(p, "Create") \/ Done(p, "Update")) /\ Kind(call[p].err) = "InvalidInput") =>
        Status(call[p].op, call[p].err) = "InvalidArgument"

\* C14: in every operation, a call that fails with LookupFailed or WriteFailed is
\* answered with status Internal and the message "internal server error",
\* whatever the underlying fault.
C14_OtherFailuresGenericInternal ==
    \A p \in Procs :
      (call[p].pc = "done" /\ Kind(call[p].err) \in {"LookupFailed", "WriteFailed"}) =>
        /\ Status(call[p].op, call[p].err) = "Internal"
        /\ StatusMessage(call[p].op, call[p].err) = "internal server error"

\* Two failed calls with different underlying faults, a lookup and a write.
C14_Witness ==
    \E p, q \in Procs :
      /\ call[p].pc = "done" /\ Kind(call[p].err) = "LookupFailed"
      /\ call[q].pc = "done" /\ Kind(call[q].err) = "WriteFailed"
      /\ call[p].err.wraps # call[q].err.wraps
      /\ StatusMessage(call[p].op, call[p].err) = StatusMessage(call[q].op, call[q].err)

\* Batch reads: how often a user occurs in the request and in the result, and
\* how many of the call's network calls of one kind for one user were made, failed.
Occurrences(p, u) ==
    Cardinality({k \in 1..Len(call[p].req.UserIDs) : call[p].req.UserIDs[k] = u})

Returned(p, u) ==
    Cardinality({k \in 1..Len(call[p].profile) : call[p].profile[k].UserID = u})

MadeOn(p, pc, u) ==
    Cardinality({i \in 1..Len(ghost[p].log) :
                   ghost[p].log[i].pc = pc /\ ghost[p].log[i].key = u})

FailedOn(p, pc, u) ==
    Cardinality({i \in 1..Len(ghost[p].log) :
                   /\ ghost[p].log[i].pc = pc /\ ghost[p].log[i].key = u
                   /\ ghost[p].log[i].failed})

\* C15 as claimed: a batch read none of whose store lookups fails, with no other
\* task changing a requested user's record or cache entry meanwhile, returns no
\* error, one profile for each occurrence of a user that has a store record and
\* none for a user that has no store record; every profile returned is of a
\* requested user.
C15_BatchReturnsStoreRecords ==
    \A p \in Procs :
      (Done(p, "Batch") /\ ~StoreFault(p) /\ ~ghost[p].during) =>
        /\ call[p].err = NoErr
        /\ \A u \in UserIDs :
             Returned(p, u) = IF ghost[p].rows0[u] # Nil THEN Occurrences(p, u) ELSE 0
        /\ \A k \in 1..Len(call[p].profile) : call[p].profile[k].UserID \in Users(p)

\* C15 as amended: such a batch read returns no error, one profile for each
\* occurrence of a user that has a store record, and none for a user that has
\* neither a store record nor a cache entry; every profile returned is of a
\* requested user and is that user's cache entry or store record as the call
\* found them (for a user with a cache entry but no store record, the cached copy).
C15_BatchReturnsCachedOrStored ==
    \A p \in Procs :
      (Done(p, "Batch") /\ ~StoreFault(p) /\ ~ghost[p].during) =>
        /\ call[p].err = NoErr
        /\ \A u \in UserIDs :
             /\ ghost[p].rows0[u] # Nil => Returned(p, u) = Occurrences(p, u)
             /\ (ghost[p].rows0[u] = Nil /\ ghost[p].entries0[u] = Nil) =>
                  Returned(p, u) = 0
             /\ (ghost[p].rows0[u] = Nil /\ ghost[p].entries0[u] # Nil) =>
                  Returned(p, u) <= Occurrences(p, u) - FailedOn(p, "cache_get", u)
        /\ \A k \in 1..Len(call[p].profile) :
             LET u == call[p].profile[k].UserID
             IN /\ u \in Users(p)
                /\ \/ Some(call[p].profile[k]) = ghost[p].rows0[u]
                   \/ Some(call[p].profile[k]) = GetCachedProfile(ghost[p].entries0, u)

\* The batch <<u1, u3, u2>> where u1 and u2 have records and u3 has none returns
\* two profiles, those of u1 and u2.
C15_Witness ==
    \E p \in Procs :
      /\ Done(p, "Batch") /\ ~StoreFault(p) /\ ~ghost[p].during
      /\ call[p].req.UserIDs = <<"u1", "u3", "u2">>
      /\ ghost[p].rows0["u1"] # Nil /\ ghost[p].rows0["u2"] # Nil
      /\ Len(call[p].profile) = 2
      /\ Returned(p, "u1") = 1 /\ Returned(p, "u2") = 1

\* C16: a batch read never returns an error.  With no other task changing a
\* requested user's record or cache entry meanwhile: every failed cache lookup
\* is followed by a store lookup for that user, and a user that has a store
\* record is returned once for each occurrence but those whose store lookup
\* failed.
C16_BatchNeverFailsAsAWhole ==
    \A p \in Procs :
      Done(p, "Batch") =>
        /\ call[p].err = NoErr
        /\ ~ghost[p].during =>
             \A u \in UserIDs :
               /\ MadeOn(p, "store_get", u) >= FailedOn(p, "cache_get", u)
               /\ ghost[p].rows0[u] # Nil =>
                    Returned(p, u) = Occurrences(p, u) - FailedOn(p, "store_get", u)

\* A batch in which the cache lookup of one user and the store lookup of another
\* failed and a third user's profile was returned all the same.
C16_Witness ==
    \E p \in Procs :
      /\ Done(p, "Batch") /\ ~ghost[p].during
      /\ ghost[p].rows0["u1"] # Nil /\ ghost[p].rows0["u2"] # Nil
      /\ FailedOn(p, "store_get", "u1") = 1
      /\ FailedOn(p, "cache_get", "u2") = 1
      /\ Returned(p, "u1") = 0 /\ Returned(p, "u2") = 1

\* The Get for user u that comes next, run to completion without a fault from the
\* present state.
NoFaults == [lookup |-> FALSE, write |-> FALSE, cache |-> FALSE]

NextGet(u) ==
    Run([pc |-> "cache_get", op |-> "Get", userID |-> u, req |-> [UserID |-> u],
         profile |-> Nil, err |-> NoErr, loop |-> NoLoop], World, NoFaults)

\* An Update or Create of task p has written the user's record, which is still
\* the store's, and its cache write has failed or has not happened.
WrittenNotCached(p) ==
    /\ call[p].op \in {"Create", "Update"}
    /\ \/ call[p].pc = "cache_set"
       \/ call[p].pc = "done" /\ call[p].err = NoErr /\ CacheFault(p)
    /\ RecordOf(store, User(p)) = call[p].profile

\* C17 as claimed: in such a state the next Get for the user returns the store's
\* record and leaves the user's cache entry equal to it.
C17_NextGetRepairsCache ==
    \A p \in Procs :
      WrittenNotCached(p) =>
        LET g == NextGet(User(p))
        IN /\ g.ps.err = NoErr
           /\ g.ps.profile = RecordOf(store, User(p))
           /\ g.w.cache[User(p)] = Some(Marshal(RecordOf(store, User(p))[1]))

\* C17 as amended: in such a state, if the cache holds no entry for the user, the
\* next Get returns the store's record and leaves the user's cache entry equal to
\* it; if the cache still holds an entry, the next Get returns that entry and
\* leaves the cache as it is.
C17_NextGetRepairsMissingEntry ==
    \A p \in Procs :
      WrittenNotCached(p) =>
        LET g == NextGet(User(p))
        IN /\ g.ps.err = NoErr
           /\ g.w.store = store
           /\ cache[User(p)] = Nil =>
                /\ g.ps.profile = RecordOf(store, User(p))
                /\ g.w.cache[User(p)] = Some(Marshal(RecordOf(store, User(p))[1]))
           /\ cache[User(p)] # Nil =>
                /\ g.ps.profile = GetCachedProfile(cache, User(p))
                /\ g.w.cache = cache

\* An Update whose cache write failed over a missing entry: the next Get repairs.
C17_Witness ==
    \E p \in Procs :
      /\ WrittenNotCached(p) /\ Done(p, "Update") /\ cache[User(p)] = Nil
      /\ NextGet(User(p)).w.cache[User(p)] # Nil

\* C20: the step of a Get whose cache lookup does not fail and finds an entry for
\* the user ends the call with that entry's copy as its result; the step changes
\* neither the store nor the cache, and it is the call's only network call.
CacheHit(p) ==
    /\ call[p].op = "Get" /\ call[p].pc = "cache_get"
    /\ call'[p] # call[p]
    /\ cache[User(p)] # Nil
    /\ ~ghost'[p].log[1].failed

C20_CacheHitReturnsWithoutStore ==
    [][\A p \in Procs :
         CacheHit(p) =>
           /\ call'[p].pc = "done"
           /\ call'[p].err = NoErr
           /\ call'[p].profile = Some(Unmarshal(cache[User(p)][1]))
           /\ store' = store /\ cache' = cache
           /\ Len(ghost'[p].log) = 1 /\ ghost'[p].log[1].io = "cache"]_vars

\* A Get answered by its one cache lookup with a copy that is not the store's
\* record of the user.
C20_Witness ==
    \E p \in Procs :
      /\ Done(p, "Get") /\ call[p].err = NoErr
      /\ Len(ghost[p].log) = 1 /\ ~ghost[p].log[1].failed
      /\ call[p].profile # RecordOf(store, User(p))
      /\ ~ghost[p].during

\* The cache entry of user u is absent or is the store's record of u.
Coherent(u) ==
    \/ cache[u] = Nil
    \/ /\ RecordOf(store, u) # Nil
       /\ cache[u] = Some(Marshal(RecordOf(store, u)[1]))

\* C18 as claimed: with no failing call and no expiry, once every call has
\* completed each user's cache entry is absent or equal to the store's record of
\* the user, whatever the interleaving of the calls.
C18_QuiescentCacheCoherent == Quiescent => \A u \in UserIDs : Coherent(u)

\* C18 as amended: with no failing call and no expiry, a call reaches its cache
\* write holding the store's record of its user as its store call left it, and
\* the cache entry of a user changes only to the record such a call holds for
\* that user, or to nothing; the store never holds two records of one user.  The
\* entry left when all calls have completed is thus a record the store once held
\* for the user, not necessarily the present one.
ReadsOrWritesStoreRecord ==
    \A p \in Procs :
      (call'[p].pc = "cache_set" /\ call[p].pc # "cache_set") =>
        call'[p].profile = RecordOf(store', call'[p].userID)

CachesRecordHeld ==
    \A u \in UserIDs :
      (cache'[u] # cache[u] /\ cache'[u] # Nil) =>
        \E p \in Procs :
          /\ call[p].pc = "cache_set" /\ call'[p].pc = "done"
          /\ call[p].profile[1].UserID = u
          /\ cache'[u] = Some(Marshal(call[p].profile[1]))

C18_CacheHoldsRecordOnceStored ==
    [][ReadsOrWritesStoreRecord /\ CachesRecordHeld /\ UniqueRows']_vars

\* All calls have completed and the cache holds an entry for a user who has no
\* record, left by calls that interleaved.
C18_Witness ==
    /\ Quiescent /\ calls = MaxCalls
    /\ \E u \in UserIDs : cache[u] # Nil /\ RecordOf(store, u) = Nil

\* C19: when calls are served one at a time and no cache call fails, then
\* whenever no call is in progress every cache entry is the store's present
\* record of its user, and no user without a record has an entry.
C19_SerialCacheCoherent ==
    (\A p \in Procs : call[p].pc \in {"idle", "done"}) =>
      \A u \in UserIDs :
        /\ RecordOf(store, u) = Nil => cache[u] = Nil
        /\ cache[u] # Nil => cache[u] = Some(Marshal(RecordOf(store, u)[1]))

\* After an Update, the rewritten record is in the cache.
C19_Witness ==
    \E p \in Procs : \E r \in store :
      /\ Done(p, "Update") /\ call[p].err = NoErr
      /\ r.user_id = User(p) /\ r.updated_at > r.created_at
      /\ cache[User(p)] = Some(Marshal(ScanProfile(r)))

\* C21: a Create or Update that succeeds, and a Get that succeeds after a cache
\* miss, end with a cache write; a batch read makes one cache write for each
\* record it found in the store.  That cache write, when it does not fail, puts
\* the record the call returns under the record's user id and changes nothing
\* else; when it fails the cache is unchanged.  Either way the call's result is
\* the same, the store is untouched, and the call succeeds.
LastEntry(log) == log[Len(log)]

CacheWritesOf(p) ==
    Cardinality({i \in 1..Len(ghost[p].log) : ghost[p].log[i].pc = "cache_set"})

EndsWithCacheWrite ==
    \A p \in Procs :
      /\ (call[p].pc = "done" /\ call[p].op \in {"Get", "Create", "Update"}
          /\ call[p].err = NoErr /\ Len(ghost[p].log) > 1) =>
           /\ call[p].profile # Nil
           /\ LastEntry(ghost[p].log).pc = "cache_set"
           /\ CacheWritesOf(p) = 1
      /\ Done(p, "Batch") =>
           Len(call[p].profile) = CacheWritesOf(p)
             + Len(call[p].req.UserIDs) - Len(call[p].loop.missingFromCache)

CacheWriteStep(p) ==
    LET written == call[p].profile[Len(call[p].profile)]
    IN (call[p].pc = "cache_set" /\ call'[p] # call[p]) =>
         /\ ~LastEntry(ghost'[p].log).failed =>
              cache' = [cache EXCEPT ![written.UserID] = Some(Marshal(written))]
         /\ LastEntry(ghost'[p].log).failed => cache' = cache
         /\ call'[p].profile = call[p].profile
         /\ call'[p].err = NoErr
         /\ store' = store
         /\ call[p].op # "Batch" => call'[p].pc = "done"

C21_CacheHoldsReturnedRecord ==
    [](EndsWithCacheWrite) /\ [][\A p \in Procs : CacheWriteStep(p)]_vars

\* A batch read that found two records in the store, cached one and failed to
\* cache the other.
C21_Witness ==
    \E p \in Procs :
      /\ Done(p, "Batch") /\ CacheWritesOf(p) = 2
      /\ \E i, j \in 1..Len(ghost[p].log) :
           /\ ghost[p].log[i].pc = "cache_set" /\ ghost[p].log[i].failed
           /\ ghost[p].log[j].pc = "cache_set" /\ ~ghost[p].log[j].failed
           /\ cache[ghost[p].log[j].key] # Nil

\* C22: the store write of an Update that finds the user's record gone (it was
\* there at the existence check, so a Delete has removed it since) ends the call
\* with an error, a write failure answered Internal, without a result; the step
\* changes neither the store, where no record appears for the user, nor the
\* cache.  An Update that failed so has written nothing at all.
LateUpdate(p) ==
    /\ call[p].op = "Update" /\ call[p].pc = "store_update"
    /\ call'[p] # call[p]
    /\ RowsOf(store, User(p)) = {}

UpdateOfRemoved(p) ==
    /\ Done(p, "Update")
    /\ Len(ghost[p].log) = 2
    /\ ghost[p].log[2].pc = "store_update" /\ ~ghost[p].log[2].failed
    /\ call[p].err # NoErr

C22_UpdateAfterDeleteFails ==
    /\ [](\A p \in Procs : UpdateOfRemoved(p) => (ghost[p].gone /\ ~Wrote(p)))
    /\ [][\A p \in Procs :
            LateUpdate(p) =>
              /\ call'[p].pc = "done"
              /\ call'[p].err # NoErr
              /\ Kind(call'[p].err) = "WriteFailed"
              /\ Status("Update", call'[p].err) = "Internal"
              /\ call'[p].profile = Nil
              /\ store' = store /\ RowsOf(store', User(p)) = {}
              /\ cache' = cache]_vars

\* An Update that passed its existence check and then found the record deleted.
C22_Witness ==
    \E p \in Procs :
      /\ UpdateOfRemoved(p) /\ ghost[p].row0 # Nil /\ ghost[p].gone
      /\ call[p].err = Errorf("profile update failed", "")
      /\ RowsOf(store, User(p)) = {}

\* C23: the store write of a Delete succeeds only by removing the one record the
\* user has; when it finds no record, or fails, the call ends with an error, a
\* write failure, changing neither store nor cache.  A Delete that returned an
\* error has made no eviction and changed nothing; one that returned success has
\* removed a record.  A record being removed once, at most one of the Deletes
\* racing for it succeeds.
DeleteWrite(p) ==
    /\ call[p].op = "Delete" /\ call[p].pc = "store_delete"
    /\ call'[p] # call[p]

RemovedARecord(p) ==
    \E i \in 1..Len(ghost[p].log) :
      ghost[p].log[i].pc = "store_delete" /\ ghost[p].log[i].wrote

Evicted(p) == \E i \in 1..Len(ghost[p].log) : ghost[p].log[i].pc = "cache_del"

C23_OneDeleteSucceedsPerRecord ==
    /\ [](\A p \in Procs :
            Done(p, "Delete") =>
              /\ call[p].err = NoErr <=> RemovedARecord(p)
              /\ call[p].err # NoErr => (~Evicted(p) /\ ~Wrote(p)))
    /\ [][\A p \in Procs :
            DeleteWrite(p) =>
              IF RowsOf(store, User(p)) = {} \/ LastEntry(ghost'[p].log).failed
              THEN /\ call'[p].pc = "done"
                   /\ Kind(call'[p].err) = "WriteFailed"
                   /\ store' = store /\ cache' = cache
              ELSE /\ call'[p].pc = "cache_del"
                   /\ Cardinality(RowsOf(store, User(p))) = 1
                   /\ store' = store \ RowsOf(store, User(p))
                   /\ cache' = cache]_vars

\* Two Deletes that both found the record: one removed it, the other failed.
C23_Witness ==
    \E p, q \in Procs :
      /\ Done(p, "Delete") /\ Done(q, "Delete") /\ User(p) = User(q)
      /\ ghost[p].row0 # Nil /\ ghost[q].row0 = ghost[p].row0
      /\ call[p].err = NoErr
      /\ call[q].err.wraps = "profile not found for user ID"
      /\ ~Evicted(q)

\* C24: a Get, Create, Update or Delete that returns an error returns no record
\* and has changed neither the store nor the cache in any of its steps.
C24_ErrorsLeaveNoTrace ==
    \A p \in Procs :
      (call[p].pc = "done" /\ call[p].op \in {"Get", "Create", "Update", "Delete"}
       /\ call[p].err # NoErr) =>
        /\ Kind(call[p].err) \in {"InvalidInput", "NotFound", "AlreadyExists",
                                   "LookupFailed", "WriteFailed"}
        /\ call[p].profile = Nil
        /\ ~Wrote(p)
        /\ \A i \in 1..Len(ghost[p].log) :
             ghost[p].log[i].pc \notin {"cache_set", "cache_del"}

\* A Create whose insert the store rejected, and a Delete whose store write
\* failed while the cache held the user's entry.
C24_Witness ==
    \E p, q \in Procs :
      /\ Done(p, "Create") /\ call[p].err.wraps = "unique_violation"
      /\ Done(q, "Delete") /\ Kind(call[q].err) = "WriteFailed"
      /\ cache[User(q)] # Nil

\* C25: a process started with a CACHE_TTL that does not parse is not serving;
\* in a serving process every cache entry has the expiration the configuration
\* holds, the parsed CACHE_TTL or one hour when the variable is unset.
Configured == ParseDuration(getEnv(srv.CACHE_TTL, "1h"))

C25_EntriesCarryConfiguredTTL ==
    /\ Configured.err => ~srv.serving
    /\ srv.serving =>
         /\ srv.cfg = Some([CacheURL |-> Configured.d])
         /\ \A u \in UserIDs : cache[u] # Nil => expires[u] = Some(srv.cfg[1].CacheURL)

\* What the service does instead: start-up fails on a value that does not
\* parse, and every entry carries NewCacheRepository's one hour.
StartupFailsOnUnparsable == Configured.err <=> ~srv.serving

EntriesCarryOneHour ==
    \A u \in UserIDs :
      /\ cache[u] # Nil => expires[u] = Some(3600)
      /\ cache[u] = Nil => expires[u] = Nil

EntryUnderOtherTTL ==
    /\ srv.serving /\ srv.cfg[1].CacheURL = 1800
    /\ \E u \in UserIDs : cache[u] # Nil /\ expires[u] = Some(3600)

====
